---------------------------- MODULE Spec2Model ----------------------------
(***************************************************************************)
(* Model of the FlowStudio execution core:                                 *)
(*   - GraphBuilder      (flow_execution_engine.py: build/validate/order)  *)
(*   - ExecutionCoordinator (flow_execution_engine.py: execute_flow)       *)
(*   - cancel endpoint   (api/execution.py: cancel_execution)              *)
(*   - WorkerPool        (flow_api_gateway.py: FlowProcessManager)         *)
(*   - InputResolver     (flow_execution_engine.py: input resolution)      *)
(*   - flow editor       (api/flowstudio.py: update_flow)                  *)
(* Six specifications share the module: SpecGraph applies the pure graph   *)
(* functions to bounded inputs, SpecRun drives one flow run interleaved    *)
(* with an external cancel request and an edit of the flow, SpecProgress   *)
(* iterates the progress computation, SpecPool interleaves the worker      *)
(* pool's coroutines (SpecPoolLive adds the fairness of the startup poll), *)
(* SpecResolve applies the input resolver.                                 *)
(***************************************************************************)
EXTENDS Integers, Sequences, FiniteSets, TLC

\* ------------------------------------------------------------------ bounds
MaxNodes == 3      \* node ids are 1..MaxNodes (SpecGraph)
MaxEdges == 3      \* longest edge list (SpecGraph)
MaxRunEdges == 2   \* longest edge list of an executed flow (SpecRun)
MaxTotal == 50     \* most nodes of an all-succeeding run (SpecProgress)
MaxProcesses == 1  \* max_processes of the FlowProcessManager (SpecPool)
MaxKeys == 2       \* published (flow_id, flow_version) keys
MaxCallers == 2    \* concurrent execute_flow_api requests
MaxSpawns == 3     \* worker processes spawned in one behaviour
MaxRequests == 1   \* cap on request_count
MaxStopErrors == 1 \* cap on the stop attempts that raise
MaxTime == 6       \* the clock stops here (minutes)
TickMinutes == 6   \* the clock advances in steps of this many minutes
MaxIncoming == 2   \* longest edge list given to the resolver (SpecResolve)

\* --------------------------------------------------------- program constants
BasePort == 8100           \* FlowProcessManager.__init__, base_port
IdleTimeoutMinutes == 5    \* _cleanup_idle_processes, timedelta(minutes=5)

Ids == 1..MaxNodes

VARIABLES
    nodes,      \* node list of the flow: sequence of node ids
    edges,      \* edge list of the flow: sequence of [source, target]
    graph,      \* result of _build_execution_graph: [keys, deps]
    valid,      \* result of _validate_execution_graph
    order,      \* result of _calculate_execution_order: [raised, seq]
    pc,         \* position of the coordinator / of the graph pipeline
    \* ExecutionRecord (FlowExecution row)
    execStatus,             \* "none" until the row is created
    progress,
    completedComponents,
    totalComponents,
    errorMessage,
    finalOutputWritten,     \* final_output column has been written
    \* NodeExecutionRecords (ComponentExecution rows): status per node id,
    \* "none" where no row exists
    compStatus,
    \* coordinator locals
    idx,                    \* loop index i of _execute_components
    exc,                    \* exception in flight ("" when none)
    results,                \* outcome of each node reached by the loop, in order
    \* NotificationSink: messages sent, in order
    events,
    \* cancel_execution request
    cancelPc,
    \* the Flow row
    dbFlow,     \* flow_data stored in the database: [nodes, edges]
    snapshot,   \* flow_snapshot column of the ExecutionRecord
    \* _prepare_component_input
    rEdges,     \* edges argument
    rOutputs,   \* component_outputs argument
    rNode,      \* input_values of the node argument
    rInput,     \* the returned input_data
    \* FlowProcessManager
    procs,      \* FlowProcess objects ever created, by spawn number
    nextPid,    \* spawn number of the next FlowProcess
    registry,   \* self.processes: key -> spawn number, 0 when absent
    portPool,   \* self.port_pool
    usedPorts,  \* self.used_ports
    stopErrors, \* number of _stop_process calls whose termination attempt raised
    \* FlowAPIGateway
    published,  \* keys of self.published_flows
    \* wall clock, minutes
    now,
    \* execute_flow_api / get_or_create_process coroutines
    cpc,        \* position of each caller
    ckey,       \* key the caller asked for
    cproc,      \* FlowProcess the caller holds (existing_process / flow_process)
    response    \* outcome of the call that has just ended, not yet delivered

graphVars == <<graph, valid, order>>
recordVars == <<execStatus, progress, completedComponents, totalComponents,
                errorMessage, finalOutputWritten>>
runVars == <<recordVars, compStatus, idx, exc, results, events, cancelPc>>

storeVars == <<dbFlow, snapshot>>
resolveVars == <<rEdges, rOutputs, rNode, rInput>>

flowVars == <<nodes, edges, graphVars, pc, runVars, storeVars, resolveVars>>
poolVars == <<procs, nextPid, registry, portPool, usedPorts, stopErrors, published, now,
              cpc, ckey, cproc, response>>

vars == <<flowVars, poolVars>>

\* ------------------------------------------------------------ sequences
Range(s) == {s[i] : i \in 1..Len(s)}

Contains(s, x) == \E i \in 1..Len(s) : s[i] = x

\* position of the first occurrence of x in s, 0 when absent
IndexOf(s, x) ==
    IF Contains(s, x) THEN CHOOSE i \in 1..Len(s) : s[i] = x /\ \A j \in 1..(i-1) : s[j] # x
    ELSE 0

SeqsUpTo(S, n) == UNION {[1..k -> S] : k \in 0..n}

InjectiveSeqsUpTo(S, n) ==
    {s \in SeqsUpTo(S, n) : \A i, j \in 1..Len(s) : i # j => s[i] # s[j]}

Edge == [source : Ids, target : Ids]

Keys == 1..MaxKeys
Callers == 1..MaxCallers
Pids == 1..MaxSpawns
Ports == BasePort..(BasePort + MaxProcesses - 1)

\* stopped is history: a _stop_process call on this object ran to its end
NoProc == [key |-> 0, port |-> 0, status |-> "none", alive |-> FALSE,
           serving |-> FALSE, requestCount |-> 0, lastRequest |-> 0,
           stopped |-> FALSE]

NoResponse == [caller |-> 0, kind |-> "none", proc |-> 0]

\* the state of a freshly constructed manager and gateway, no request made
NoPool ==
    /\ procs = [p \in Pids |-> NoProc]
    /\ nextPid = 1
    /\ registry = [k \in Keys |-> 0]
    /\ portPool = Ports
    /\ usedPorts = {}
    /\ stopErrors = 0
    /\ published = Keys
    /\ now = 0
    /\ cpc = [c \in Callers |-> "idle"]
    /\ ckey = [c \in Callers |-> 0]
    /\ cproc = [c \in Callers |-> 0]
    /\ response = NoResponse

NoFlow == [nodes |-> <<>>, edges |-> <<>>]

\* an empty dict
EmptyDict == [k \in {} |-> 0]

NoResolve ==
    /\ rEdges = <<>>
    /\ rOutputs = EmptyDict
    /\ rNode = EmptyDict
    /\ rInput = EmptyDict

NoGraph == [keys |-> <<>>, deps |-> [n \in Ids |-> {}]]
NoOrder == [raised |-> FALSE, seq |-> <<>>]

\* ---------------------------------------------------------- GraphBuilder
\* _build_execution_graph: a dict whose keys are the node ids in node-list
\* order followed by every edge target that is not a node (defaultdict
\* insertion), each mapped to the set of sources of its incoming edges.
RECURSIVE AddEdges(_, _, _)
AddEdges(g, es, k) ==
    IF k > Len(es) THEN g
    ELSE LET e == es[k]
             keys2 == IF Contains(g.keys, e.target) THEN g.keys
                      ELSE Append(g.keys, e.target)
         IN  AddEdges([keys |-> keys2,
                       deps |-> [g.deps EXCEPT ![e.target] = @ \cup {e.source}]],
                      es, k + 1)

BuildExecutionGraph(ns, es) ==
    AddEdges([keys |-> ns, deps |-> [n \in Ids |-> {}]], es, 1)

\* graph.get(node_id, set())
GraphGet(g, n) == IF Contains(g.keys, n) THEN g.deps[n] ELSE {}

\* has_cycle: depth-first search with a visited set and a recursion stack.
\* Returns [found, visited].  A set is iterated smallest id first; the
\* verdict does not depend on the iteration order.
RECURSIVE HasCycle(_, _, _, _)
RECURSIVE VisitDeps(_, _, _, _)
HasCycle(g, n, visited, stack) ==
    IF n \in stack THEN [found |-> TRUE, visited |-> visited]
    ELSE IF n \in visited THEN [found |-> FALSE, visited |-> visited]
    ELSE VisitDeps(g, GraphGet(g, n), visited \cup {n}, stack \cup {n})

VisitDeps(g, todo, visited, stack) ==
    IF todo = {} THEN [found |-> FALSE, visited |-> visited]
    ELSE LET d == CHOOSE x \in todo : \A y \in todo : x <= y
             r == HasCycle(g, d, visited, stack)
         IN  IF r.found THEN r
             ELSE VisitDeps(g, todo \ {d}, r.visited, stack)

\* _validate_execution_graph: run has_cycle from every not yet visited node
\* of the node list, in list order; FALSE as soon as one reports a cycle.
RECURSIVE ValidateFrom(_, _, _, _)
ValidateFrom(g, ns, k, visited) ==
    IF k > Len(ns) THEN TRUE
    ELSE IF ns[k] \in visited THEN ValidateFrom(g, ns, k + 1, visited)
    ELSE LET r == HasCycle(g, ns[k], visited, {})
         IN  IF r.found THEN FALSE
             ELSE ValidateFrom(g, ns, k + 1, r.visited)

ValidateExecutionGraph(g, ns) == ValidateFrom(g, ns, 1, {})

\* mutant of InDegree: the loop that loads len(dependencies) is forgotten
InDegreeNoDeps(g) == [n \in Ids |-> 0]

\* _calculate_execution_order: Kahn's algorithm over the dict's keys.
\* in_degree has the same key order as the graph (node list first).
InDegree(g) == [n \in Ids |-> Cardinality(GraphGet(g, n))]

SelectZero(keys, deg) == SelectSeq(keys, LAMBDA n : deg[n] = 0)

\* one pass of "for node_id, dependencies in graph.items()" for the popped
\* node cur: decrement the dependents, enqueue the ones that reach zero
RECURSIVE Relax(_, _, _, _, _)
Relax(g, cur, k, deg, queue) ==
    IF k > Len(g.keys) THEN [deg |-> deg, queue |-> queue]
    ELSE LET n == g.keys[k]
         IN  IF cur \in g.deps[n]
             THEN LET deg2 == [deg EXCEPT ![n] = @ - 1]
                  IN  Relax(g, cur, k + 1, deg2,
                            IF deg2[n] = 0 THEN Append(queue, n) ELSE queue)
             ELSE Relax(g, cur, k + 1, deg, queue)

RECURSIVE Kahn(_, _, _, _)
Kahn(g, deg, queue, out) ==
    IF queue = <<>> THEN out
    ELSE LET cur == Head(queue)
             r == Relax(g, cur, 1, deg, Tail(queue))
         IN  Kahn(g, r.deg, r.queue, Append(out, cur))

CalculateExecutionOrder(g, ns) ==
    LET deg == InDegree(g)
        out == Kahn(g, deg, SelectZero(g.keys, deg), <<>>)
    IN  [raised |-> Len(out) # Len(ns), seq |-> out]

\* ------------------------------------------------------------- SpecGraph
GraphInputs ==
    /\ nodes \in InjectiveSeqsUpTo(Ids, MaxNodes)
    /\ edges \in SeqsUpTo(Edge, MaxEdges)

NoRun ==
    /\ execStatus = "none"
    /\ progress = 0
    /\ completedComponents = 0
    /\ totalComponents = 0
    /\ errorMessage = ""
    /\ finalOutputWritten = FALSE
    /\ compStatus = [n \in Ids |-> "none"]
    /\ idx = 0
    /\ exc = ""
    /\ results = <<>>
    /\ events = <<>>
    /\ cancelPc = "idle"
    /\ dbFlow = [nodes |-> nodes, edges |-> edges]
    /\ snapshot = NoFlow

InitGraph ==
    /\ GraphInputs
    /\ graph = NoGraph
    /\ valid = FALSE
    /\ order = NoOrder
    /\ pc = "g_input"
    /\ NoRun
    /\ NoPool
    /\ NoResolve

GBuild ==
    /\ pc = "g_input"
    /\ graph' = BuildExecutionGraph(nodes, edges)
    /\ pc' = "g_built"
    /\ UNCHANGED <<poolVars, resolveVars, storeVars, nodes, edges, valid, order, runVars>>

GValidate ==
    /\ pc = "g_built"
    /\ valid' = ValidateExecutionGraph(graph, nodes)
    /\ pc' = "g_validated"
    /\ UNCHANGED <<poolVars, resolveVars, storeVars, nodes, edges, graph, order, runVars>>

GOrder ==
    /\ pc = "g_validated"
    /\ order' = CalculateExecutionOrder(graph, nodes)
    /\ pc' = "g_ordered"
    /\ UNCHANGED <<poolVars, resolveVars, storeVars, nodes, edges, graph, valid, runVars>>

NextGraph == GBuild \/ GValidate \/ GOrder

SpecGraph == InitGraph /\ [][NextGraph]_vars

\* --------------------------------------------------- ExecutionCoordinator
\* Percentages q for which the double-precision expression (q/100)*100
\* evaluates just below q (IEEE-754 binary64: (29/100)*100 is
\* 28.999999999999996, likewise 57 and 58), so that int() truncates to
\* q - 1.  For every other k/n the rounding error is far smaller than the
\* distance 1/n to the next integer and int() yields the exact floor.
InexactPercents == {29, 57, 58}

\* int((completed_components / total_components) * 100)
ProgressPct(k, n) ==
    LET q == (100 * k) \div n
    IN  IF (100 * k) % n = 0 /\ q \in InexactPercents THEN q - 1 ELSE q

\* a message handed to the connection manager by an ExecutionNotifier
\* method: type names the method, comp is 0 for execution-level messages,
\* prog is -1 for messages that carry no progress
Ev(type, comp, status, prog) ==
    [type |-> type, comp |-> comp, status |-> status, prog |-> prog]

\* node ids that have a ComponentExecution row
Records(cs) == {n \in Ids : cs[n] # "none"}

\* mutant: finalize no longer looks at the component rows
AllSuccessfulUnchecked(cs) == TRUE

\* all(ce.status == "completed" for ce in component_executions)
AllSuccessful(cs) == \A n \in Records(cs) : cs[n] = "completed"

\* _create_component_execution_records: node_map[node_id] raises KeyError at
\* the first id of the order that is not a node; the rows added before it
\* stay pending in the session and are flushed by the next commit.
FirstMissing(seq, ns) ==
    IF \E k \in 1..Len(seq) : ~Contains(ns, seq[k])
    THEN CHOOSE k \in 1..Len(seq) :
            ~Contains(ns, seq[k]) /\ \A j \in 1..(k - 1) : Contains(ns, seq[j])
    ELSE 0

CreatedRecords(seq, ns) ==
    LET m == FirstMissing(seq, ns)
        upto == IF m = 0 THEN Len(seq) ELSE m - 1
    IN  [n \in Ids |-> IF \E k \in 1..upto : seq[k] = n THEN "pending" ELSE "none"]

\* mutant of Snapshot: only the node list is recorded
SnapshotNodesOnly(ns, es) == [nodes |-> ns, edges |-> <<>>]

\* _create_execution_record, line 121: flow_snapshot=flow.flow_data
Snapshot(ns, es) == [nodes |-> ns, edges |-> es]

\* _create_execution_record: the row is inserted with status pending
CreateExecutionRecord ==
    /\ pc = "start"
    /\ execStatus' = "pending"
    /\ totalComponents' = Len(nodes)
    /\ snapshot' = Snapshot(nodes, edges)
    /\ pc' = "created"
    /\ UNCHANGED <<poolVars, resolveVars, dbFlow, nodes, edges, graphVars, progress, completedComponents,
                   errorMessage, finalOutputWritten, compStatus, idx, exc, results,
                   events, cancelPc>>

\* flow.flow_data as the run's session returns it after the commit of
\* _create_execution_record: the session keeps the attribute values it
\* loaded (sessions are made with expire_on_commit=False), whatever other
\* sessions have committed to the row since.
SessionFlow(loaded, row) == loaded

\* execute_flow, lines 55-75: flow.flow_data is read again; the empty flow
\* completes at once; otherwise build, validate, order and create the
\* component rows.
PlanExecution ==
    /\ pc = "created"
    /\ LET fd == SessionFlow([nodes |-> nodes, edges |-> edges], dbFlow)
           g == BuildExecutionGraph(fd.nodes, fd.edges)
           v == ValidateExecutionGraph(g, fd.nodes)
           o == CalculateExecutionOrder(g, fd.nodes)
       IN  IF fd.nodes = <<>>
           THEN /\ execStatus' = "completed"
                /\ errorMessage' = "No components to execute"
                /\ pc' = "done"
                /\ UNCHANGED <<graphVars, compStatus, exc>>
           ELSE IF ~v
           THEN /\ graph' = g /\ valid' = v
                /\ execStatus' = "failed"
                /\ errorMessage' = "Invalid flow structure"
                /\ pc' = "done"
                /\ UNCHANGED <<order, compStatus, exc>>
           ELSE IF o.raised
           THEN /\ graph' = g /\ valid' = v /\ order' = o
                /\ exc' = "Unable to determine execution order"
                /\ pc' = "handler"
                /\ UNCHANGED <<execStatus, errorMessage, compStatus>>
           ELSE /\ graph' = g /\ valid' = v /\ order' = o
                /\ compStatus' = CreatedRecords(o.seq, fd.nodes)
                /\ IF FirstMissing(o.seq, fd.nodes) # 0
                   THEN exc' = "KeyError" /\ pc' = "handler"
                   ELSE exc' = exc /\ pc' = "records"
                /\ UNCHANGED <<execStatus, errorMessage>>
    /\ UNCHANGED <<poolVars, resolveVars, storeVars, nodes, edges, progress, completedComponents, totalComponents,
                   finalOutputWritten, idx, results, events, cancelPc>>

\* _update_execution_status(execution.id, "running")
StartExecution ==
    /\ pc = "records"
    /\ execStatus' = "running"
    /\ pc' = "started"
    /\ UNCHANGED <<poolVars, resolveVars, storeVars, nodes, edges, graphVars, progress, completedComponents,
                   totalComponents, errorMessage, finalOutputWritten,
                   compStatus, idx, exc, results, events, cancelPc>>

\* execution_notifier.notify_execution_started
NotifyStarted ==
    /\ pc = "started"
    /\ events' = Append(events, Ev("execution_started", 0, "running", 0))
    /\ idx' = 0
    /\ pc' = "loop"
    /\ UNCHANGED <<poolVars, resolveVars, storeVars, nodes, edges, graphVars, recordVars, compStatus, exc, results, cancelPc>>

\* mutant of ComponentStart: the order is walked from its end
ComponentStartReversed ==
    /\ pc = "loop"
    /\ idx < Len(order.seq)
    /\ LET n == order.seq[Len(order.seq) - idx]
       IN  /\ compStatus' = [compStatus EXCEPT ![n] = "running"]
           /\ events' = Append(events, Ev("component_started", n, "running", -1))
    /\ pc' = "exec"
    /\ UNCHANGED <<poolVars, resolveVars, storeVars, nodes, edges, graphVars, recordVars, idx, exc, results, cancelPc>>

\* _execute_components, lines 248-258: the next node of the order is set
\* running and component_started is sent
ComponentStart ==
    /\ pc = "loop"
    /\ idx < Len(order.seq)
    /\ LET n == order.seq[idx + 1]
       IN  /\ compStatus' = [compStatus EXCEPT ![n] = "running"]
           /\ events' = Append(events, Ev("component_started", n, "running", -1))
    /\ pc' = "exec"
    /\ UNCHANGED <<poolVars, resolveVars, storeVars, nodes, edges, graphVars, recordVars, idx, exc, results, cancelPc>>

\* get_executor: str(e) of the ValueError raised for a component_type that
\* has no entry in _executors (the type name itself is left out)
UnknownComponentType == "Unknown component type"

\* _execute_components, lines 261-287 and 296: input preparation, executor
\* lookup and the executor itself either raise, or the executor returns a
\* result whose success flag _update_component_execution stores as
\* completed / failed; notify_component_completed follows in both cases.
\* Outcome unknown_type is get_executor raising at line 265.
ComponentExecute ==
    /\ pc = "exec"
    /\ LET n == order.seq[idx + 1]
       IN  \E outcome \in {"success", "unsuccessful", "raise", "unknown_type"} :
           /\ results' = Append(results, outcome)
           /\ IF outcome \in {"raise", "unknown_type"}
              THEN /\ exc' = IF outcome = "unknown_type"
                             THEN UnknownComponentType ELSE "component error"
                   /\ pc' = "comp_handler"
                   /\ UNCHANGED <<compStatus, events>>
              ELSE /\ compStatus' = [compStatus EXCEPT
                         ![n] = IF outcome = "success" THEN "completed" ELSE "failed"]
                   /\ events' = Append(events, Ev("component_completed", n, "completed", -1))
                   /\ pc' = "progress"
                   /\ exc' = exc
    /\ UNCHANGED <<poolVars, resolveVars, storeVars, nodes, edges, graphVars, recordVars, idx, cancelPc>>

\* _execute_components, lines 289-294: _update_execution_progress stores
\* progress and completed_components, notify_execution_progress sends the
\* same percentage
UpdateProgress ==
    /\ pc = "progress"
    /\ progress' = ProgressPct(idx + 1, Len(order.seq))
    /\ completedComponents' = idx + 1
    /\ events' = Append(events, Ev("execution_progress", 0, "running",
                                   ProgressPct(idx + 1, Len(order.seq))))
    /\ idx' = idx + 1
    /\ pc' = "loop"
    /\ UNCHANGED <<poolVars, resolveVars, storeVars, nodes, edges, graphVars, execStatus, totalComponents,
                   errorMessage, finalOutputWritten, compStatus, exc, results, cancelPc>>

\* mutant of ComponentFailed: the except clause does not re-raise and the
\* loop goes on to the next node
ComponentFailedContinues ==
    /\ pc = "comp_handler"
    /\ LET n == order.seq[idx + 1]
       IN  /\ compStatus' = [compStatus EXCEPT ![n] = "failed"]
           /\ events' = Append(events, Ev("component_failed", n, "failed", -1))
    /\ pc' = "progress"
    /\ UNCHANGED <<poolVars, resolveVars, storeVars, nodes, edges, graphVars, recordVars, idx, exc, results, cancelPc>>

\* _execute_components, lines 296-304: the except clause marks the node
\* failed, sends component_failed and re-raises
ComponentFailed ==
    /\ pc = "comp_handler"
    /\ LET n == order.seq[idx + 1]
       IN  /\ compStatus' = [compStatus EXCEPT ![n] = "failed"]
           /\ events' = Append(events, Ev("component_failed", n, "failed", -1))
    /\ pc' = "handler"
    /\ UNCHANGED <<poolVars, resolveVars, storeVars, nodes, edges, graphVars, recordVars, idx, exc, results, cancelPc>>

\* mutant of ExecutionFailed: notify_execution_failed is not called
ExecutionFailedSilent ==
    /\ pc = "handler"
    /\ execStatus' = "failed"
    /\ errorMessage' = exc
    /\ pc' = "done"
    /\ UNCHANGED <<poolVars, resolveVars, storeVars, nodes, edges, graphVars, progress, completedComponents,
                   totalComponents, finalOutputWritten, compStatus, idx, exc, results, events, cancelPc>>

\* execute_flow, lines 90-98: the except clause marks the execution failed
\* with the error text and sends execution_failed
ExecutionFailed ==
    /\ pc = "handler"
    /\ execStatus' = "failed"
    /\ errorMessage' = exc
    /\ events' = Append(events, Ev("execution_failed", 0, "failed", 0))
    /\ pc' = "done"
    /\ UNCHANGED <<poolVars, resolveVars, storeVars, nodes, edges, graphVars, progress, completedComponents,
                   totalComponents, finalOutputWritten, compStatus, idx, exc, results, cancelPc>>

\* _finalize_execution, reached when the loop has gone through the order
FinalizeExecution ==
    /\ pc = "loop"
    /\ idx = Len(order.seq)
    /\ IF AllSuccessful(compStatus)
       THEN /\ execStatus' = "completed"
            /\ finalOutputWritten' = TRUE
            /\ events' = Append(events, Ev("execution_completed", 0, "completed", 100))
            /\ UNCHANGED errorMessage
       ELSE /\ execStatus' = "failed"
            /\ errorMessage' = "One or more components failed"
            /\ events' = Append(events, Ev("execution_failed", 0, "failed", 0))
            /\ UNCHANGED finalOutputWritten
    /\ pc' = "done"
    /\ UNCHANGED <<poolVars, resolveVars, storeVars, nodes, edges, graphVars, progress, completedComponents,
                   totalComponents, compStatus, idx, exc, results, cancelPc>>

\* cancel_execution, lines 309-326: the row is read and its status checked
CancelCheck ==
    /\ cancelPc = "idle"
    /\ cancelPc' = IF execStatus = "none" THEN "not_found"
                   ELSE IF execStatus \in {"pending", "running"} THEN "checked"
                   ELSE "rejected"
    /\ UNCHANGED <<poolVars, resolveVars, storeVars, nodes, edges, graphVars, pc, recordVars, compStatus, idx, exc, results, events>>

\* cancel_execution, lines 328-331: the status is written at commit
CancelCommit ==
    /\ cancelPc = "checked"
    /\ execStatus' = "cancelled"
    /\ cancelPc' = "cancelled"
    /\ UNCHANGED <<poolVars, resolveVars, storeVars, nodes, edges, graphVars, pc, progress, completedComponents,
                   totalComponents, errorMessage, finalOutputWritten,
                   compStatus, idx, exc, results, events>>

\* the flow_data an editor saves over the one the run loaded: the last
\* node and all edges removed (a first node added to the empty flow)
EditedFlow(fd) ==
    [nodes |-> IF fd.nodes = <<>> THEN <<1>> ELSE SubSeq(fd.nodes, 1, Len(fd.nodes) - 1),
     edges |-> <<>>]

\* update_flow, lines 473-481: another request, in its own session, stores
\* new flow_data in the Flow row and commits
EditFlow ==
    /\ pc # "done"
    /\ dbFlow = [nodes |-> nodes, edges |-> edges]
    /\ dbFlow' = EditedFlow(dbFlow)
    /\ UNCHANGED <<poolVars, resolveVars, snapshot, nodes, edges, graphVars, pc, runVars>>

\* the flows a run is started on: node list 1..n, any short edge list over
\* the ids (ids above n are not nodes of the flow)
RunInputs ==
    /\ nodes \in {[k \in 1..n |-> k] : n \in 0..MaxNodes}
    /\ edges \in SeqsUpTo(Edge, MaxRunEdges)

InitRun ==
    /\ RunInputs
    /\ graph = NoGraph
    /\ valid = FALSE
    /\ order = NoOrder
    /\ pc = "start"
    /\ NoRun
    /\ NoPool
    /\ NoResolve

NextRun ==
    \/ CreateExecutionRecord
    \/ PlanExecution
    \/ StartExecution
    \/ NotifyStarted
    \/ ComponentStart
    \/ ComponentExecute
    \/ UpdateProgress
    \/ ComponentFailed
    \/ ExecutionFailed
    \/ FinalizeExecution
    \/ CancelCheck
    \/ CancelCommit
    \/ EditFlow

SpecRun == InitRun /\ [][NextRun]_vars

\* ---------------------------------------------------------- SpecProgress
\* The progress arithmetic of a run of n nodes whose executors all succeed:
\* the loop of _execute_components reduced to lines 289-294, for node
\* counts beyond those SpecRun enumerates.
InitProgress ==
    /\ nodes = <<>> /\ edges = <<>>
    /\ graph = NoGraph /\ valid = FALSE /\ order = NoOrder
    /\ pc = "p_loop"
    /\ execStatus = "running"
    /\ progress = 0
    /\ completedComponents = 0
    /\ totalComponents \in 1..MaxTotal
    /\ errorMessage = ""
    /\ finalOutputWritten = FALSE
    /\ compStatus = [n \in Ids |-> "none"]
    /\ idx = 0
    /\ exc = ""
    /\ results = <<>>
    /\ events = <<>>
    /\ cancelPc = "idle"
    /\ dbFlow = [nodes |-> nodes, edges |-> edges]
    /\ snapshot = NoFlow
    /\ NoPool
    /\ NoResolve

ProgressStep ==
    /\ pc = "p_loop"
    /\ idx < totalComponents
    /\ progress' = ProgressPct(idx + 1, totalComponents)
    /\ completedComponents' = idx + 1
    /\ events' = Append(events, Ev("execution_progress", 0, "running",
                                   ProgressPct(idx + 1, totalComponents)))
    /\ idx' = idx + 1
    /\ UNCHANGED <<poolVars, resolveVars, storeVars, nodes, edges, graphVars, pc, execStatus, totalComponents,
                   errorMessage, finalOutputWritten, compStatus, exc, results,
                   cancelPc>>

NextProgress == ProgressStep

SpecProgress == InitProgress /\ [][NextProgress]_vars

\* -------------------------------------------------------------- WorkerPool
\* Coroutines of one event loop interleave only at the awaits that suspend:
\* the HTTP health probes and the sleep of the startup poll.  Everything
\* between two such awaits is one action.  _stop_process,
\* _cleanup_idle_processes and _create_execution_script contain no
\* suspending await and run to completion inside the action that calls them.
\* The outcome of a call that ends is handed to its HTTP client before the
\* event loop runs anything else (Respond); the hand-over touches no state
\* of the manager.

\* the manager's bookkeeping as a value
PoolState ==
    [procs |-> procs, registry |-> registry, portPool |-> portPool,
     usedPorts |-> usedPorts, stopErrors |-> stopErrors]

\* the FlowProcess objects a coroutine or an undelivered response refers to
Held(cp, resp) == {cp[c] : c \in Callers} \cup {resp.proc}

\* a FlowProcess object that neither the registry nor a coroutine refers to
\* any more is garbage; its worker, while running, keeps its key and port
Collect(ps, reg, held) ==
    [p \in Pids |->
        IF (\E k \in Keys : reg[k] = p) \/ p \in held THEN ps[p]
        ELSE IF ps[p].alive
             THEN [NoProc EXCEPT !.key = ps[p].key, !.port = ps[p].port,
                                 !.alive = TRUE, !.serving = ps[p].serving]
             ELSE NoProc]

SetPool(st, held) ==
    /\ procs' = Collect(st.procs, st.registry, held)
    /\ registry' = st.registry
    /\ portPool' = st.portPool
    /\ usedPorts' = st.usedPorts
    /\ st.stopErrors <= MaxStopErrors
    /\ stopErrors' = st.stopErrors

\* how the termination attempt of _stop_process ends: the worker is gone
\* (gracefully or after kill), or terminate/wait raised
StopOutcomes == {"stopped", "raised"}

\* mutant of StopProcess: used_ports.discard(port) is forgotten
StopProcessKeepsUsed(st, p, outcome) ==
    IF outcome = "raised" THEN [st EXCEPT !.stopErrors = @ + 1]
    ELSE [st EXCEPT !.procs[p].alive = FALSE, !.procs[p].serving = FALSE,
                    !.procs[p].stopped = TRUE,
                    !.registry[st.procs[p].key] = 0,
                    !.portPool = @ \cup {st.procs[p].port}]

\* _stop_process: on success the worker is dead, its port goes back to the
\* pool and the registry entry of its key is popped, whichever process that
\* entry holds; when the attempt raises, the except clause only logs.
StopProcess(st, p, outcome) ==
    IF outcome = "raised" THEN [st EXCEPT !.stopErrors = @ + 1]
    ELSE [st EXCEPT !.procs[p].alive = FALSE, !.procs[p].serving = FALSE,
                    !.procs[p].stopped = TRUE,
                    !.registry[st.procs[p].key] = 0,
                    !.portPool = @ \cup {st.procs[p].port},
                    !.usedPorts = @ \ {st.procs[p].port}]

RegisteredKeys(st) == {k \in Keys : st.registry[k] # 0}

\* len(self.processes)
RegCount(st) == Cardinality(RegisteredKeys(st))

\* _cleanup_idle_processes, lines 361-369: the processes to remove
ToRemove(st, force, t) ==
    {st.registry[k] : k \in {k2 \in RegisteredKeys(st) :
        force \/ t - st.procs[st.registry[k2]].lastRequest > IdleTimeoutMinutes}}

\* _cleanup_idle_processes, lines 371-372: stop each of them (the stops of
\* distinct registry entries commute; taken by spawn number)
RECURSIVE StopAll(_, _, _)
StopAll(st, ps, outs) ==
    IF ps = {} THEN st
    ELSE LET p == CHOOSE x \in ps : \A y \in ps : x <= y
         IN  StopAll(StopProcess(st, p, outs[p]), ps \ {p}, outs)

\* a GET on http://localhost:port/health is answered with 200
PortServed(st, port) ==
    \E p \in Pids : st.procs[p].alive /\ st.procs[p].serving /\ st.procs[p].port = port

\* no call has ended without its outcome being handed over
Quiet == response = NoResponse

\* the call ends, returning p (kind "returned") or raising, with the
\* bookkeeping st
Finish(c, st, kind, p) ==
    /\ cpc' = [cpc EXCEPT ![c] = "idle"]
    /\ cproc' = [cproc EXCEPT ![c] = 0]
    /\ response' = [caller |-> c, kind |-> kind, proc |-> p]
    /\ SetPool(st, Held([cproc EXCEPT ![c] = 0], [proc |-> p]))
    /\ nextPid' = nextPid

\* _create_process up to the await of _wait_for_process_ready: take a port
\* (set.pop: any element), write the script and spawn; on an exception the
\* port is given back, otherwise the FlowProcess is registered under the key
CreateProcess(c, k, st) ==
    IF st.portPool = {} THEN Finish(c, st, "failed_ports", 0)
    ELSE \E port \in st.portPool, spawned \in BOOLEAN :
           IF spawned
           THEN /\ nextPid <= MaxSpawns
                /\ cpc' = [cpc EXCEPT ![c] = "waiting"]
                /\ cproc' = [cproc EXCEPT ![c] = nextPid]
                /\ response' = response
                /\ SetPool([st EXCEPT
                               !.procs[nextPid] =
                                   [key |-> k, port |-> port, status |-> "starting",
                                    alive |-> TRUE, serving |-> FALSE,
                                    requestCount |-> 0, lastRequest |-> now,
                                    stopped |-> FALSE],
                               !.registry[k] = nextPid,
                               !.portPool = @ \ {port},
                               !.usedPorts = @ \cup {port}],
                           Held([cproc EXCEPT ![c] = nextPid], response))
                /\ nextPid' = nextPid + 1
           ELSE Finish(c, [st EXCEPT !.usedPorts = @ \ {port}], "failed_spawn", 0)

\* mutant of CheckLimits: the second capacity test is left out
CheckLimitsNoRecheck(c, k, st) ==
    IF RegCount(st) >= MaxProcesses
    THEN \E outs \in [ToRemove(st, FALSE, now) -> StopOutcomes] :
           CreateProcess(c, k, StopAll(st, ToRemove(st, FALSE, now), outs))
    ELSE CreateProcess(c, k, st)

\* get_or_create_process, lines 105-116
CheckLimits(c, k, st) ==
    IF RegCount(st) >= MaxProcesses
    THEN \E outs \in [ToRemove(st, FALSE, now) -> StopOutcomes] :
           LET st2 == StopAll(st, ToRemove(st, FALSE, now), outs)
           IN  IF RegCount(st2) >= MaxProcesses
               THEN Finish(c, st2, "failed_capacity", 0)
               ELSE CreateProcess(c, k, st2)
    ELSE CreateProcess(c, k, st)

\* execute_flow_api, lines 439-447, and get_or_create_process up to its
\* first suspending await: a registered process whose OS process is still
\* running is probed over HTTP; a dead one is unhealthy at once and stopped
GetOrCreateBegin(c, k) ==
    /\ Quiet
    /\ cpc[c] = "idle"
    /\ k \in published
    /\ LET e == registry[k]
       IN  IF e # 0 /\ procs[e].alive
           THEN /\ cpc' = [cpc EXCEPT ![c] = "health"]
                /\ cproc' = [cproc EXCEPT ![c] = e]
                /\ ckey' = [ckey EXCEPT ![c] = k]
                /\ UNCHANGED <<procs, registry, portPool, usedPorts, stopErrors,
                               nextPid, response>>
           ELSE /\ ckey' = ckey
                /\ IF e # 0
                   THEN \E out \in StopOutcomes :
                           CheckLimits(c, k, StopProcess(PoolState, e, out))
                   ELSE CheckLimits(c, k, PoolState)
    /\ UNCHANGED <<flowVars, published, now>>

\* mutant of GetOrCreateHealth: a healthy process is returned without the
\* bump of request_count
GetOrCreateHealthNoBump(c) ==
    /\ Quiet
    /\ cpc[c] = "health"
    /\ LET e == cproc[c]
       IN  IF PortServed(PoolState, procs[e].port)
           THEN /\ procs[e].requestCount < MaxRequests
                /\ Finish(c, [PoolState EXCEPT !.procs[e].lastRequest = now],
                          "returned", e)
           ELSE \E out \in StopOutcomes :
                   CheckLimits(c, ckey[c], StopProcess(PoolState, e, out))
    /\ ckey' = [ckey EXCEPT ![c] = 0]
    /\ UNCHANGED <<flowVars, published, now>>

\* _is_process_healthy, lines 323-331, and what get_or_create_process does
\* with the verdict: bump and return, or stop the process and create anew
GetOrCreateHealth(c) ==
    /\ Quiet
    /\ cpc[c] = "health"
    /\ LET e == cproc[c]
       IN  IF PortServed(PoolState, procs[e].port)
           THEN /\ procs[e].requestCount < MaxRequests
                /\ Finish(c, [PoolState EXCEPT
                                 !.procs[e].lastRequest = now,
                                 !.procs[e].requestCount = @ + 1],
                          "returned", e)
           ELSE \E out \in StopOutcomes :
                   CheckLimits(c, ckey[c], StopProcess(PoolState, e, out))
    /\ ckey' = [ckey EXCEPT ![c] = 0]
    /\ UNCHANGED <<flowVars, published, now>>

\* mutant of GetOrCreateReady: the process is declared ready without an
\* answered poll
GetOrCreateReadyUnprobed(c) ==
    /\ Quiet
    /\ cpc[c] = "waiting"
    /\ Finish(c, [PoolState EXCEPT !.procs[cproc[c]].status = "ready"],
              "returned", cproc[c])
    /\ UNCHANGED <<flowVars, published, now, ckey>>

\* _wait_for_process_ready, lines 286-292: a poll is answered with 200
GetOrCreateReady(c) ==
    /\ Quiet
    /\ cpc[c] = "waiting"
    /\ PortServed(PoolState, procs[cproc[c]].port)
    /\ Finish(c, [PoolState EXCEPT !.procs[cproc[c]].status = "ready"],
              "returned", cproc[c])
    /\ UNCHANGED <<flowVars, published, now, ckey>>

\* _wait_for_process_ready, lines 298-313, and the except clause of
\* _create_process, lines 162-169: the startup timeout elapsed
GetOrCreateTimeout(c) ==
    /\ Quiet
    /\ cpc[c] = "waiting"
    /\ LET p == cproc[c]
       IN  Finish(c, [PoolState EXCEPT
                         !.procs[p].status = "error",
                         !.portPool = @ \cup {procs[p].port},
                         !.usedPorts = @ \ {procs[p].port}],
                  "failed_timeout", 0)
    /\ UNCHANGED <<flowVars, published, now, ckey>>

\* the outcome reaches the HTTP client
Respond ==
    /\ ~Quiet
    /\ response' = NoResponse
    /\ procs' = Collect(procs, registry, Held(cproc, NoResponse))
    /\ UNCHANGED <<flowVars, nextPid, registry, portPool, usedPorts, stopErrors,
                   published, now, cpc, ckey, cproc>>

\* the cleanup loop (force = FALSE) and the /cleanup endpoint (either)
CleanupIdleProcesses(force) ==
    /\ Quiet
    /\ ToRemove(PoolState, force, now) # {}
    /\ \E outs \in [ToRemove(PoolState, force, now) -> StopOutcomes] :
          SetPool(StopAll(PoolState, ToRemove(PoolState, force, now), outs),
                  Held(cproc, response))
    /\ UNCHANGED <<flowVars, nextPid, published, now, cpc, ckey, cproc, response>>

\* unpublish_flow, lines 511-522
UnpublishFlow(k) ==
    /\ Quiet
    /\ k \in published
    /\ IF registry[k] # 0
       THEN \E out \in StopOutcomes :
               SetPool(StopProcess(PoolState, registry[k], out), Held(cproc, response))
       ELSE UNCHANGED <<procs, registry, portPool, usedPorts, stopErrors>>
    /\ published' = published \ {k}
    /\ UNCHANGED <<flowVars, nextPid, now, cpc, ckey, cproc, response>>

\* publish_flow, line 498
PublishFlow(k) ==
    /\ Quiet
    /\ k \notin published
    /\ published' = published \cup {k}
    /\ UNCHANGED <<flowVars, procs, nextPid, registry, portPool, usedPorts,
                   stopErrors, now, cpc, ckey, cproc, response>>

\* the worker's server starts listening on its port (bind fails while
\* another live worker listens there)
WorkerServe(p) ==
    /\ Quiet
    /\ procs[p].alive
    /\ ~procs[p].serving
    /\ ~PortServed(PoolState, procs[p].port)
    /\ procs' = [procs EXCEPT ![p].serving = TRUE]
    /\ UNCHANGED <<flowVars, nextPid, registry, portPool, usedPorts, stopErrors,
                   published, now, cpc, ckey, cproc, response>>

\* the worker's OS process exits on its own
WorkerExit(p) ==
    /\ Quiet
    /\ procs[p].alive
    /\ procs' = Collect([procs EXCEPT ![p].alive = FALSE, ![p].serving = FALSE],
                        registry, Held(cproc, response))
    /\ UNCHANGED <<flowVars, nextPid, registry, portPool, usedPorts, stopErrors,
                   published, now, cpc, ckey, cproc, response>>

Tick ==
    /\ Quiet
    /\ now + TickMinutes <= MaxTime
    /\ now' = now + TickMinutes
    /\ UNCHANGED <<flowVars, procs, nextPid, registry, portPool, usedPorts,
                   stopErrors, published, cpc, ckey, cproc, response>>

InitPool ==
    /\ nodes = <<>> /\ edges = <<>>
    /\ graph = NoGraph /\ valid = FALSE /\ order = NoOrder
    /\ pc = "pool"
    /\ NoRun
    /\ NoPool
    /\ NoResolve

NextPool ==
    \/ \E c \in Callers, k \in Keys : GetOrCreateBegin(c, k)
    \/ \E c \in Callers : GetOrCreateHealth(c)
    \/ \E c \in Callers : GetOrCreateReady(c)
    \/ \E c \in Callers : GetOrCreateTimeout(c)
    \/ Respond
    \/ \E force \in BOOLEAN : CleanupIdleProcesses(force)
    \/ \E k \in Keys : UnpublishFlow(k)
    \/ \E k \in Keys : PublishFlow(k)
    \/ \E p \in Pids : WorkerServe(p)
    \/ \E p \in Pids : WorkerExit(p)
    \/ Tick

SpecPool == InitPool /\ [][NextPool]_vars

\* _wait_for_process_ready runs in the coroutine that spawned the worker; its
\* loop ends at the latest when the timeout has elapsed, and the event loop
\* runs every coroutine whose await has completed.  The poll and the
\* timeout are therefore strongly fair for each caller (they are disabled
\* only while another call's outcome is being handed over), and the
\* hand-over itself is weakly fair.
StartupEnds(c) == GetOrCreateReady(c) \/ GetOrCreateTimeout(c)

PoolFairness ==
    /\ WF_vars(Respond)
    /\ \A c \in Callers : SF_vars(StartupEnds(c))

SpecPoolLive == InitPool /\ [][NextPool]_vars /\ PoolFairness

\* -------------------------------------------------------- VariableResolver
\* _prepare_component_input as a function of its arguments.  A dict is a
\* function on its set of keys.  A handle that is None or "" is "" (the code
\* tests handles for truth only).  Leaf values are numbers; the value tells
\* where it came from: 1 and 2 are the fields text and length of a nested
\* output, 3 a top-level port of the source output, 4 an output that is not
\* a dict, 5 a configured input value.

\* dict.update(d)
Update(a, d) ==
    [k \in (DOMAIN a) \cup (DOMAIN d) |-> IF k \in DOMAIN d THEN d[k] ELSE a[k]]

\* a[k] = v
Put(a, k, v) ==
    [j \in (DOMAIN a) \cup {k} |-> IF j = k THEN v ELSE a[j]]

SourceHandles == {"", "output", "output.text", "text"}
TargetHandles == {"", "text", "output.length", "extra"}

\* '.' in h and h.startswith('output.'), over the handles of the model
IsDotted(h) == h \in {"output.text", "output.length"}

\* h.split('.', 1)[1]
VarName(h) == IF h = "output.text" THEN "text" ELSE "length"

\* edge['data']: nothing, the flag with an empty mapping list, one mapping
EdgeData ==
    {[isMulti |-> FALSE, mappings |-> <<>>],
     [isMulti |-> TRUE, mappings |-> <<>>],
     [isMulti |-> TRUE,
      mappings |-> <<[outputVariable |-> "length", targetVariable |-> "extra"]>>]}

ResolveEdge ==
    [source : {1}, target : {2, 3}, sourceHandle : SourceHandles,
     targetHandle : TargetHandles, data : EdgeData]

NestedOutputs == {[f \in S |-> IF f = "text" THEN 1 ELSE 2] : S \in SUBSET {"text", "length"}}

\* source_output['output']: missing, not a dict, or a dict of fields
OutputValues ==
    {[kind |-> "absent", items |-> EmptyDict], [kind |-> "scalar", items |-> EmptyDict]}
        \cup {[kind |-> "dict", items |-> d] : d \in NestedOutputs}

\* a source output: not a dict, or a dict with an optional 'output' key and
\* an optional top-level port 'text'
SourceOutputs ==
    {[isDict |-> FALSE, output |-> [kind |-> "absent", items |-> EmptyDict], ports |-> EmptyDict]}
        \cup {[isDict |-> TRUE, output |-> o, ports |-> ps] :
                 o \in OutputValues, ps \in {EmptyDict, [k \in {"text"} |-> 3]}}

\* the loop over edge_data['variableMappings'], lines 341-345
RECURSIVE ApplyMappings(_, _, _, _)
ApplyMappings(input, maps, content, i) ==
    IF i > Len(maps) THEN input
    ELSE ApplyMappings(IF maps[i].outputVariable \in DOMAIN content
                       THEN Put(input, maps[i].targetVariable,
                                content[maps[i].outputVariable])
                       ELSE input,
                       maps, content, i + 1)

\* 'output' in source_output, for a source output that is a dict
HasOutput(so) == so.isDict /\ so.output.kind # "absent"

\* mutant of NestedBranch: a nested output is always broadcast
NestedBranchBroadcasts(input, e, so) ==
    IF so.output.kind = "dict" THEN Update(input, so.output.items)
    ELSE IF e.targetHandle # "" THEN Put(input, e.targetHandle, 4) ELSE input

\* mutant of NestedBranch: without a target handle nothing is passed on
NestedBranchNeedsHandle(input, e, so) ==
    LET th == e.targetHandle
        content == so.output.items
    IN  IF th = "" THEN input
        ELSE IF so.output.kind # "dict" THEN Put(input, th, 4)
        ELSE IF th \in DOMAIN content THEN Put(input, th, content[th])
        ELSE IF IsDotted(th)
             THEN IF VarName(th) \in DOMAIN content
                  THEN Put(input, th, content[VarName(th)])
                  ELSE input
             ELSE Update(input, content)

\* lines 349-373: source_handle is 'output' and the output is nested
NestedBranch(input, e, so) ==
    LET th == e.targetHandle
        content == so.output.items
    IN  IF so.output.kind = "dict"
        THEN IF th # ""
             THEN IF th \in DOMAIN content THEN Put(input, th, content[th])
                  ELSE IF IsDotted(th)
                       THEN IF VarName(th) \in DOMAIN content
                            THEN Put(input, th, content[VarName(th)])
                            ELSE input
                       ELSE Update(input, content)
             ELSE Update(input, content)
        ELSE IF th # "" THEN Put(input, th, 4) ELSE input

\* lines 333-345: the edge carries variable mappings
MappingBranch(input, e, so) ==
    IF HasOutput(so) /\ so.output.kind = "dict"
    THEN ApplyMappings(input, e.data.mappings, so.output.items, 1)
    ELSE input

\* lines 376-382: source_handle is 'output.<field>'
DottedSourceBranch(input, e, so) ==
    IF so.output.kind = "dict" /\ VarName(e.sourceHandle) \in DOMAIN so.output.items
          /\ e.targetHandle # ""
    THEN Put(input, e.targetHandle, so.output.items[VarName(e.sourceHandle)])
    ELSE input

\* lines 385-386: source_handle is a top-level key of the source output
LegacyBranch(input, e, so) ==
    IF so.isDict /\ e.sourceHandle \in DOMAIN so.ports /\ e.targetHandle # ""
    THEN Put(input, e.targetHandle, so.ports[e.sourceHandle])
    ELSE input

\* the body of "for edge in edges", lines 325-386
EdgeInput(input, e, nodeId, outs) ==
    IF e.target # nodeId THEN input
    ELSE IF ~(e.source \in DOMAIN outs /\ e.sourceHandle # "") THEN input
    ELSE LET so == outs[e.source]
         IN  IF e.data.isMulti /\ e.data.mappings # <<>>
             THEN MappingBranch(input, e, so)
             ELSE IF e.sourceHandle = "output" /\ HasOutput(so)
             THEN NestedBranch(input, e, so)
             ELSE IF IsDotted(e.sourceHandle) /\ HasOutput(so)
             THEN DottedSourceBranch(input, e, so)
             ELSE LegacyBranch(input, e, so)

\* mutant of ResolveFrom: the edge list is walked from its end
RECURSIVE ResolveFromReversed(_, _, _, _, _)
ResolveFromReversed(input, es, i, nodeId, outs) ==
    IF i > Len(es) THEN input
    ELSE ResolveFromReversed(EdgeInput(input, es[Len(es) + 1 - i], nodeId, outs),
                             es, i + 1, nodeId, outs)

\* for edge in edges, lines 325-326
RECURSIVE ResolveFrom(_, _, _, _, _)
ResolveFrom(input, es, i, nodeId, outs) ==
    IF i > Len(es) THEN input
    ELSE ResolveFrom(EdgeInput(input, es[i], nodeId, outs), es, i + 1, nodeId, outs)

\* _prepare_component_input(node_id, edges, component_outputs, node)
PrepareComponentInput(nodeId, es, outs, inputValues) ==
    ResolveFrom(Update(EmptyDict, inputValues), es, 1, nodeId, outs)

InitResolve ==
    /\ nodes = <<>> /\ edges = <<>>
    /\ graph = NoGraph /\ valid = FALSE /\ order = NoOrder
    /\ pc = "r_input"
    /\ NoRun
    /\ NoPool
    /\ rEdges \in SeqsUpTo(ResolveEdge, MaxIncoming)
    /\ rOutputs \in {EmptyDict} \cup {[s \in {1} |-> so] : so \in SourceOutputs}
    /\ rNode \in {EmptyDict, [k \in {"text"} |-> 5]}
    /\ rInput = EmptyDict

Resolve ==
    /\ pc = "r_input"
    /\ rInput' = PrepareComponentInput(2, rEdges, rOutputs, rNode)
    /\ pc' = "r_done"
    /\ UNCHANGED <<poolVars, storeVars, nodes, edges, graphVars, runVars,
                   rEdges, rOutputs, rNode>>

NextResolve == Resolve

SpecResolve == InitResolve /\ [][NextResolve]_vars

\* ------------------------------------------------- reference definitions
\* the edge relation of a flow and its transitive closure
EdgeSet(es) == {<<es[i].source, es[i].target>> : i \in 1..Len(es)}

ClosureOf(R) ==
    LET Step(S) == S \cup {<<a, c>> \in Ids \X Ids :
                              \E b \in Ids : <<a, b>> \in S /\ <<b, c>> \in S}
        It[k \in 0..MaxNodes] == IF k = 0 THEN R ELSE Step(It[k - 1])
    IN  It[MaxNodes]

HasCycleIn(es) == \E n \in Ids : <<n, n>> \in ClosureOf(EdgeSet(es))

EndpointsAreNodes(ns, es) ==
    \A i \in 1..Len(es) : es[i].source \in Range(ns) /\ es[i].target \in Range(ns)

IsInjective(s) == \A i, j \in 1..Len(s) : i # j => s[i] # s[j]

\* ----------------------------------------------------------------- C1
\* C1: for a node list with unique ids and an edge list whose endpoints
\* are all nodes and whose dependency graph is acyclic, the computed
\* execution order contains every node id exactly once and places the
\* source of every edge before its target.
C1_OrderIsTopological ==
    (pc = "g_ordered" /\ EndpointsAreNodes(nodes, edges) /\ ~HasCycleIn(edges))
        => /\ ~order.raised
           /\ Len(order.seq) = Len(nodes)
           /\ Range(order.seq) = Range(nodes)
           /\ IsInjective(order.seq)
           /\ \A i \in 1..Len(edges) :
                 IndexOf(order.seq, edges[i].source) < IndexOf(order.seq, edges[i].target)

\* a chain 1 -> 2 -> 3 listed in the opposite order has been ordered
C1_Witness ==
    /\ pc = "g_ordered"
    /\ nodes = <<3, 2, 1>>
    /\ edges = <<[source |-> 2, target |-> 3], [source |-> 1, target |-> 2]>>
    /\ order.seq = <<1, 2, 3>>

\* ----------------------------------------------------------------- C2
\* a flow has a structural defect when its edges contain a cycle or an
\* edge one of whose endpoints is not a node of the flow
InvalidFlow == HasCycleIn(edges) \/ ~EndpointsAreNodes(nodes, edges)

Planned == pc \notin {"start", "created"} /\ nodes # <<>>

\* C2: validate rejects every graph that contains a cycle, and for a flow
\* with a cycle or an edge with an endpoint that is not a node the run
\* ends failed and no node ever becomes running.  Stated for flows that
\* have at least one node, and for the final status as the coordinator
\* leaves it (no external cancel written over it).
C2_InvalidFlowNeverRuns ==
    (nodes # <<>> /\ InvalidFlow) =>
        /\ (Planned /\ HasCycleIn(edges)) => ~valid
        /\ \A n \in Ids : compStatus[n] \in {"none", "pending"}
        /\ (pc = "done" /\ cancelPc # "cancelled") => execStatus = "failed"

\* ----------------------------------------------------------------- C3
\* C3: fail-fast: once a node's executor has failed (raised, or returned
\* success=false) no node later in the execution order becomes running.
C3_FailFast ==
    \A a, b \in 1..Len(order.seq) :
        (a < b /\ compStatus[order.seq[a]] = "failed")
            => compStatus[order.seq[b]] = "pending"

\* ----------------------------------------------------------------- C4
\* every executor before the last one succeeded and the last one failed
LastNodeFailed ==
    /\ pc = "done"
    /\ nodes # <<>>
    /\ Len(results) = Len(nodes)
    /\ \A k \in 1..(Len(results) - 1) : results[k] = "success"
    /\ results[Len(results)] \in {"unsuccessful", "raise"}

\* C4: when every node before the last succeeds and the last node's
\* executor fails, every earlier node record is completed, the last one is
\* failed, the ExecutionRecord is failed (unless an external cancel has
\* marked it cancelled) and final_output is never written; and a run is
\* completed only if every node has a completed record.
C4_LastFailureFailsRun ==
    /\ LastNodeFailed =>
          /\ \A k \in 1..(Len(nodes) - 1) : compStatus[order.seq[k]] = "completed"
          /\ compStatus[order.seq[Len(nodes)]] = "failed"
          /\ cancelPc # "cancelled" => execStatus = "failed"
          /\ ~finalOutputWritten
    /\ (execStatus = "completed" \/ finalOutputWritten)
          => \A n \in Range(nodes) : compStatus[n] = "completed"

\* the three-node chain has run; its last executor returned success=false
C4_Witness ==
    /\ LastNodeFailed
    /\ nodes = <<1, 2, 3>>
    /\ edges = <<[source |-> 1, target |-> 2], [source |-> 2, target |-> 3]>>
    /\ results = <<"success", "success", "unsuccessful">>
    /\ execStatus = "failed"

\* ----------------------------------------------------------------- C5
\* C5: in a run of N >= 1 nodes that all succeed, the k-th progress value
\* emitted, and the value stored with it, is floor(k*100/N), k = 1..N.
C5_ProgressIsFloor ==
    /\ \A k \in 1..Len(events) : events[k].prog = (k * 100) \div totalComponents
    /\ progress = (idx * 100) \div totalComponents

\* ----------------------------------------------------------------- C6
\* the progress values the notifications carry, in the order sent
ReportedProgress == SelectSeq(events, LAMBDA e : e.prog # -1)

\* C6: the progress stored on the ExecutionRecord and the progress carried
\* by each status notification is an integer in 0..100 and never decreases
\* from one report to the next.
C6_ProgressMonotonic ==
    /\ progress \in 0..100
    /\ \A k \in 1..Len(ReportedProgress) : ReportedProgress[k].prog \in 0..100
    /\ \A a, b \in 1..Len(ReportedProgress) :
          a < b => ReportedProgress[a].prog <= ReportedProgress[b].prog

\* ----------------------------------------------------------------- C7
StatusRank(st) ==
    CASE st = "none" -> 0
      [] st = "pending" -> 1
      [] st = "running" -> 2
      [] OTHER -> 3

\* C7: the ExecutionRecord status only moves forward along
\* pending -> running -> {completed, failed, cancelled} and never changes
\* once it is completed, failed or cancelled.
C7_StatusForwardOnly ==
    [][execStatus' # execStatus => StatusRank(execStatus) < StatusRank(execStatus')]_vars

\* ----------------------------------------------------------------- C8
\* C8: once the ExecutionRecord has been externally marked cancelled, no
\* node that has not started yet is started.
C8_CancelStopsScheduling ==
    [][cancelPc = "cancelled" =>
          \A n \in Ids : compStatus[n] = "pending" => compStatus'[n] = "pending"]_vars

\* ----------------------------------------------------------------- C9
\* the workers spawned for key k and not yet terminated
LiveWorkers(k) == {p \in Pids : procs[p].alive /\ procs[p].key = k}

\* C9: under any interleaving of get_or_create calls, sweeps and unpublish,
\* every live worker of a key is the process the registry holds for that
\* key, so each key has at most one live worker.  Stated for the behaviours
\* in which no stop attempt raised: it fails there already.
C9_OneLiveWorkerPerKey ==
    stopErrors = 0 => \A k \in Keys : \A p \in LiveWorkers(k) : registry[k] = p

\* ---------------------------------------------------------------- C10
\* the FlowProcess entries of the registry
Registered == {registry[k] : k \in RegisteredKeys(PoolState)}

\* C10: no two registry entries hold the same port, and no port held by a
\* registered or live worker is in the free-port set.
C10_PortsDistinct ==
    /\ \A p, q \in Registered : p # q => procs[p].port # procs[q].port
    /\ \A p \in Pids : (p \in Registered \/ procs[p].alive) => procs[p].port \notin portPool

\* ---------------------------------------------------------------- C11
\* C11: the free-port set and the used-port set are disjoint and together
\* are exactly the configured range base_port .. base_port+max_processes-1.
C11_PortsPartition ==
    /\ portPool \cap usedPorts = {}
    /\ portPool \cup usedPorts = Ports

\* a port has been taken, given back and taken again
C11_Witness ==
    /\ nextPid >= 3
    /\ usedPorts # {}
    /\ \E p \in Pids : ~procs[p].alive /\ procs[p].port \in usedPorts

\* ---------------------------------------------------------------- C12
\* a get_or_create call is about to stop the process it read before its
\* health probe, the probe goes unanswered, and that process has already
\* been stopped by somebody else
SecondStopDue(c) ==
    /\ cpc[c] = "health"
    /\ procs[cproc[c]].stopped
    /\ ~PortServed(PoolState, procs[cproc[c]].port)

\* C12: stopping a process that has already been stopped leaves the
\* free-port set, the used-port set and the registry as they are, whatever
\* ran between the two stops.
C12_StopIdempotent ==
    \A c \in Callers :
        SecondStopDue(c) =>
            LET st == StopProcess(PoolState, cproc[c], "stopped")
            IN  /\ st.portPool = portPool
                /\ st.usedPorts = usedPorts
                /\ st.registry = registry

\* ---------------------------------------------------------------- C13
\* the step in which the call of c fails on the startup timeout
TimesOut(c) ==
    /\ cpc[c] = "waiting"
    /\ response' = [caller |-> c, kind |-> "failed_timeout", proc |-> 0]

\* C13: when get_or_create fails on the startup timeout, on return the port
\* it acquired is in the free set and not in the used set, and the registry
\* holds no entry for the key.
C13_TimeoutReconciled ==
    [][\A c \in Callers :
          TimesOut(c) =>
              /\ procs[cproc[c]].port \in portPool'
              /\ procs[cproc[c]].port \notin usedPorts'
              /\ registry'[procs[cproc[c]].key] = 0]_vars

\* ---------------------------------------------------------------- C14
\* a step of _cleanup_idle_processes on its own (cleanup loop or /cleanup
\* endpoint) that tried to stop at least one process
SweepStep ==
    /\ cpc' = cpc /\ response' = response /\ published' = published
    /\ now' = now /\ nextPid' = nextPid
    /\ (registry' # registry \/ stopErrors' # stopErrors)

\* the sweep did what the claim says of idle_sweep(force)
SweptAsSpecified(force) ==
    LET gone == ToRemove(PoolState, force, now)
    IN  /\ gone # {}
        /\ \A k \in Keys :
              registry'[k] = IF registry[k] \in gone THEN 0 ELSE registry[k]
        /\ \A k \in Keys :
              (registry[k] # 0 /\ registry[k] \notin gone
                 /\ procs[registry[k]].port \in usedPorts)
                => procs[registry[k]].port \in usedPorts'

\* C14: idle_sweep(force=false) removes from the registry exactly the
\* processes idle for more than 5 minutes and keeps every other one with its
\* port held; idle_sweep(force=true) removes every registered process.
\* The value of force is not part of the state: a sweep has to agree with
\* the claim for one of the two values.
C14_SweepRemovesIdle ==
    [][SweepStep => \E force \in BOOLEAN : SweptAsSpecified(force)]_vars

\* ---------------------------------------------------------------- C15
\* positions of the edges that enter the resolved node
Incoming == {i \in 1..Len(rEdges) : rEdges[i].target = 2}

\* the edge carries explicit variable mappings
HasMappings(e) == e.data.isMulti /\ e.data.mappings # <<>>

\* the source has produced a dict whose 'output' is a dict
NestedOutputGiven == 1 \in DOMAIN rOutputs /\ rOutputs[1].output.kind = "dict"

\* the resolver has returned; the node has no configured values; its single
\* incoming edge i has source_handle "output" and target_handle h, a field
\* of the nested output
SingleFieldCase(i, h) ==
    /\ pc = "r_done"
    /\ rNode = EmptyDict
    /\ Incoming = {i}
    /\ rEdges[i].sourceHandle = "output"
    /\ rEdges[i].targetHandle = h
    /\ NestedOutputGiven
    /\ h \in DOMAIN rOutputs[1].output.items

\* C15 as stated: in that case the resolved input is exactly {h: nested[h]}.
C15_SingleField ==
    \A i \in 1..Len(rEdges), h \in TargetHandles \ {""} :
        SingleFieldCase(i, h) =>
            rInput = [k \in {h} |-> rOutputs[1].output.items[h]]

\* C15 amended: the same, for an edge that carries no variable mappings.
C15_SingleFieldNoMappings ==
    \A i \in 1..Len(rEdges), h \in TargetHandles \ {""} :
        (SingleFieldCase(i, h) /\ ~HasMappings(rEdges[i])) =>
            rInput = [k \in {h} |-> rOutputs[1].output.items[h]]

\* the spec's example: output {text, length}, target_handle "text", an edge
\* to another node after it
C15_Witness ==
    /\ SingleFieldCase(1, "text")
    /\ ~HasMappings(rEdges[1])
    /\ Len(rEdges) = 2
    /\ DOMAIN rOutputs[1].output.items = {"text", "length"}
    /\ rInput = [k \in {"text"} |-> 1]

\* ---------------------------------------------------------------- C16
\* the resolver has returned; incoming edge i has source_handle "output" and
\* no target_handle; the source output has a nested output dict
BroadcastCase(i) ==
    /\ pc = "r_done"
    /\ i \in Incoming
    /\ rEdges[i].sourceHandle = "output"
    /\ rEdges[i].targetHandle = ""
    /\ NestedOutputGiven

\* every field of the nested output is a key of the resolved input, with the
\* nested value unless a later incoming edge wrote the key again
Broadcast(i) ==
    \A f \in DOMAIN rOutputs[1].output.items :
        /\ f \in DOMAIN rInput
        /\ (\A j \in Incoming : j <= i) => rInput[f] = rOutputs[1].output.items[f]

\* C16 as stated: in that case every field of the nested output is merged
\* into the resolved input at top level.
C16_Broadcast ==
    \A i \in 1..Len(rEdges) : BroadcastCase(i) => Broadcast(i)

\* C16 amended: the same, for an edge that carries no variable mappings.
C16_BroadcastNoMappings ==
    \A i \in 1..Len(rEdges) :
        (BroadcastCase(i) /\ ~HasMappings(rEdges[i])) => Broadcast(i)

\* the spec's example: both fields arrive at top level
C16_Witness ==
    /\ BroadcastCase(1)
    /\ ~HasMappings(rEdges[1])
    /\ Incoming = {1}
    /\ DOMAIN rOutputs[1].output.items = {"text", "length"}
    /\ rInput = [k \in {"text", "length"} |-> IF k = "text" THEN 1 ELSE 2]


\* the run went through its whole order and was finalized
Finalized == pc = "done" /\ valid /\ ~order.raised /\ idx = Len(order.seq)

UnknownTypeHit == exc = UnknownComponentType

\* C20: when the loop reaches a node whose component_type has no executor,
\* get_executor raises the unknown-component-type error, the node's record
\* becomes failed, the ExecutionRecord becomes failed with that message,
\* the earlier nodes keep the status their own result gave them and no
\* later node is started.
C20_UnknownTypeState ==
    UnknownTypeHit =>
        LET n == order.seq[idx + 1]
        IN  /\ pc \in {"comp_handler", "handler", "done"}
            /\ results[idx + 1] = "unknown_type"
            /\ pc \in {"handler", "done"} => compStatus[n] = "failed"
            /\ pc = "done" =>
                  /\ errorMessage = UnknownComponentType
                  /\ execStatus = "failed" \/ cancelPc = "cancelled"
            /\ \A j \in 1..idx :
                  compStatus[order.seq[j]] =
                      IF results[j] = "success" THEN "completed" ELSE "failed"
            /\ \A j \in (idx + 2)..Len(order.seq) :
                  compStatus[order.seq[j]] = "pending"

C20_UnknownTypeFailsRun ==
    /\ []C20_UnknownTypeState
    /\ [][(UnknownTypeHit /\ pc = "handler" /\ pc' = "done") =>
            (execStatus' = "failed" /\ errorMessage' = UnknownComponentType)]_vars

\* the second of three nodes had no executor: the first stays completed,
\* the third was never started
C20_Witness ==
    /\ UnknownTypeHit
    /\ pc = "done"
    /\ results = <<"success", "unknown_type">>
    /\ Len(order.seq) = 3
    /\ compStatus[order.seq[1]] = "completed"
    /\ compStatus[order.seq[2]] = "failed"
    /\ compStatus[order.seq[3]] = "pending"
    /\ execStatus = "failed"

\* a get_or_create_process call ends with the 503 of the capacity test
CapacityRefusal == response.kind = "none" /\ response'.kind = "failed_capacity"

\* C18: the registry never holds more than max_processes entries; a call
\* refused for capacity finds the registry still full after its idle sweep
\* and neither takes a port nor spawns a process.
C18_RegistryBounded ==
    /\ [](RegCount(PoolState) <= MaxProcesses)
    /\ [][CapacityRefusal =>
            /\ Cardinality({k \in Keys : registry'[k] # 0}) >= MaxProcesses
            /\ nextPid' = nextPid
            /\ portPool \subseteq portPool'
            /\ usedPorts' \subseteq usedPorts]_vars

\* a request for another key was refused while the only slot is held by a
\* live registered worker
C18_Witness ==
    /\ response.kind = "failed_capacity"
    /\ RegCount(PoolState) = MaxProcesses
    /\ \E k \in Keys : registry[k] # 0 /\ procs[registry[k]].alive
    /\ nextPid = 2

\* key k has a registry entry or a running worker
HasWorker(k) ==
    \/ registry[k] # 0
    \/ \E p \in Pids : procs[p].alive /\ procs[p].key = k

\* C19: once unpublish has returned, and until the flow is published
\* again, its key has no registered or running worker and none is created
\* for it, also when an execute request for the key was in flight (stated
\* for behaviours in which no termination attempt raised).
C19_UnpublishIsFinal ==
    /\ [](stopErrors = 0 => \A k \in Keys : k \notin published => ~HasWorker(k))
    /\ [][(stopErrors' = 0 /\ nextPid' > nextPid) =>
              procs'[nextPid].key \in published]_vars

\* node ids whose record is running
Running(cs) == {n \in Ids : cs[n] = "running"}

\* position of node n in the computed order
Position(n) == IndexOf(order.seq, n)

\* C21: at most one node record is running at any time, and a node is set
\* running only when every node before it in the computed order has left
\* running for completed or failed and no node after it has been started.
C21_Sequential ==
    /\ [](Cardinality(Running(compStatus)) <= 1)
    /\ [][\A n \in Ids :
            (compStatus'[n] = "running" /\ compStatus[n] # "running") =>
                /\ compStatus[n] = "pending"
                /\ \A j \in 1..Len(order.seq) :
                     /\ j < Position(n) =>
                            compStatus[order.seq[j]] \in {"completed", "failed"}
                     /\ j > Position(n) => compStatus[order.seq[j]] = "pending"]_vars

\* the third node of a three-node order is running after the first two
\* have finished
C21_Witness ==
    /\ Len(order.seq) = 3
    /\ Running(compStatus) = {order.seq[3]}
    /\ compStatus[order.seq[1]] = "completed"
    /\ compStatus[order.seq[2]] = "completed"
    /\ graph.deps[order.seq[3]] = {}

\* the run was set running and execution_started has been sent
ReachedRunning ==
    \/ pc \in {"loop", "exec", "progress", "comp_handler"}
    \/ pc \in {"handler", "done"} /\ results # <<>>

TerminalTypes == {"execution_completed", "execution_failed"}

ComponentEndTypes == {"component_completed", "component_failed"}

\* positions of the terminal events sent so far
Terminals(evs) == {i \in 1..Len(evs) : evs[i].type \in TerminalTypes}

\* C22: for a run that reached running, execution_started is the first
\* event, every component_completed or component_failed of a node comes
\* after that node's component_started, and a finished run has sent exactly
\* one terminal event, as its last event; an unfinished run has sent none.
C22_EventsWellOrdered ==
    ReachedRunning =>
        /\ events # <<>>
        /\ events[1].type = "execution_started"
        /\ \A i \in 2..Len(events) : events[i].type # "execution_started"
        /\ \A i \in 1..Len(events) :
              events[i].type \in ComponentEndTypes =>
                 \E j \in 1..(i - 1) :
                    /\ events[j].type = "component_started"
                    /\ events[j].comp = events[i].comp
        /\ Terminals(events) = IF pc = "done" THEN {Len(events)} ELSE {}

\* a run whose second node raised: started, two component pairs, then the
\* one execution_failed
C22_Witness ==
    /\ pc = "done"
    /\ results = <<"success", "raise">>
    /\ Len(events) = 7
    /\ events[1].type = "execution_started"
    /\ events[6].type = "component_failed"
    /\ events[7].type = "execution_failed"

\* number of node records whose status is completed
CompletedRecords(cs) == Cardinality({n \in Ids : cs[n] = "completed"})

\* C23: completed_components equals the number of node records that are
\* completed (compared between two iterations of the loop and at the end
\* of a finalized run, where no update is half done), and it is advanced
\* only for a node whose executor succeeded.
C23_CompletedCount ==
    /\ []((pc = "loop" \/ Finalized) =>
             completedComponents = CompletedRecords(compStatus))
    /\ [][completedComponents' # completedComponents =>
             /\ completedComponents' = completedComponents + 1
             /\ results[idx + 1] = "success"]_vars

\* an event of the given type has been sent for node n
Sent(type, n) == \E i \in 1..Len(events) : events[i].type = type /\ events[i].comp = n

\* positions of the order whose node has been dealt with: the loop moved on
\* or the run ended
Handled == {j \in 1..Len(results) : j <= idx \/ pc \in {"handler", "done"}}

\* C24: a node whose executor raised or returned success=false has a failed
\* record and a component_failed event, and component_completed is sent
\* only for a node whose record is completed.
C24_EventsAgreeWithStatus ==
    /\ [](\A j \in Handled :
            results[j] \in {"raise", "unsuccessful"} =>
                /\ compStatus[order.seq[j]] = "failed"
                /\ Sent("component_failed", order.seq[j]))
    /\ [][\A n \in Ids :
            (Sent("component_completed", n)' /\ ~Sent("component_completed", n)) =>
                compStatus'[n] = "completed"]_vars

\* what edge i alone assigns: the keys and values it writes into an empty
\* input
Writes(i) == EdgeInput(EmptyDict, rEdges[i], 2, rOutputs)

\* positions of the edges that assign key k
Writers(k) == {i \in 1..Len(rEdges) : k \in DOMAIN Writes(i)}

\* C26: the resolved input holds exactly the configured keys and the keys
\* some edge assigns; a key assigned by edges has the value of the latest
\* assigning edge of the edge list, also when the node configures the key;
\* a configured key that no edge assigns keeps its configured value.
C26_LastWriteWins ==
    pc = "r_done" =>
        /\ DOMAIN rInput =
              (DOMAIN rNode) \cup UNION {DOMAIN Writes(i) : i \in 1..Len(rEdges)}
        /\ \A k \in DOMAIN rInput :
              IF Writers(k) # {}
              THEN \E i \in Writers(k) :
                      /\ \A j \in Writers(k) : j <= i
                      /\ rInput[k] = Writes(i)[k]
              ELSE rInput[k] = rNode[k]

\* two edges assign "text" with different values over a configured "text":
\* the second edge's value is the result
C26_Witness ==
    /\ pc = "r_done"
    /\ "text" \in DOMAIN rNode
    /\ Writers("text") = {1, 2}
    /\ Writes(1)["text"] # Writes(2)["text"]
    /\ rInput["text"] = Writes(2)["text"]
    /\ rInput["text"] # rNode["text"]

\* unpublish_flow calls _stop_process on the registered process of key k
UnpublishStops(k) == k \in published /\ k \notin published' /\ registry[k] # 0

\* C25: when _stop_process has returned for a registered process, however
\* the termination attempt ended, the process's port is free and not used
\* and its key has no registry entry (observed at unpublish_flow, which
\* calls _stop_process once and changes nothing else of the pool).
C25_StopAlwaysReleases ==
    [][\A k \in Keys :
          UnpublishStops(k) =>
              /\ registry'[k] = 0
              /\ procs[registry[k]].port \in portPool'
              /\ procs[registry[k]].port \notin usedPorts']_vars

\* the call of caller c ends on the healthy path: the probe of the process
\* it found registered was answered
HealthyReturn(c) ==
    /\ cpc[c] = "health"
    /\ response'.caller = c
    /\ response'.kind = "returned"

\* C27: a call whose registered process passes the health probe returns
\* that process with request_count one higher and last_request_time set to
\* the current time, and changes nothing else: registry, ports of the
\* processes, free and used ports; nothing is spawned or stopped.
C27_HealthyFrame ==
    [][\A c \in Callers :
          HealthyReturn(c) =>
              LET p == cproc[c]
              IN  /\ response'.proc = p
                  /\ procs'[p].requestCount = procs[p].requestCount + 1
                  /\ procs'[p].lastRequest = now
                  /\ procs'[p].port = procs[p].port
                  /\ procs'[p].key = procs[p].key
                  /\ procs'[p].status = procs[p].status
                  /\ registry' = registry
                  /\ \A k \in Keys :
                        registry[k] # 0 =>
                            procs'[registry[k]].port = procs[registry[k]].port
                  /\ \A q \in Pids :
                        /\ procs'[q].alive = procs[q].alive
                        /\ procs'[q].stopped = procs[q].stopped
                  /\ portPool' = portPool
                  /\ usedPorts' = usedPorts
                  /\ nextPid' = nextPid
                  /\ stopErrors' = stopErrors]_vars

\* a second request for the key was answered by the registered worker
C27_Witness ==
    /\ response.kind = "returned"
    /\ response.proc # 0
    /\ procs[response.proc].requestCount = 1
    /\ procs[response.proc].status = "ready"
    /\ registry[procs[response.proc].key] = response.proc
    /\ procs[response.proc].alive

\* ports of the processes the registry holds
RegisteredPorts == {procs[registry[k]].port : k \in RegisteredKeys(PoolState)}

\* C29: the used-port set is the set of ports of the registered processes:
\* each registered process's port is used and not free, and each used port
\* belongs to exactly one registered process (stated for behaviours in
\* which no termination attempt raised).
C29_UsedPortsAreRegistered ==
    stopErrors = 0 =>
        /\ usedPorts = RegisteredPorts
        /\ RegisteredPorts \cap portPool = {}
        /\ \A k1, k2 \in RegisteredKeys(PoolState) :
              procs[registry[k1]].port = procs[registry[k2]].port => k1 = k2

\* C30: a process that get_or_create_process returns has status ready and
\* is at that moment the registry's entry for its key; a process in status
\* starting or error is never returned (stated for behaviours in which no
\* termination attempt raised).
C30_ReturnedIsReadyAndRegistered ==
    (stopErrors = 0 /\ response.kind = "returned") =>
        /\ procs[response.proc].status = "ready"
        /\ registry[procs[response.proc].key] = response.proc

\* the calls waiting in _wait_for_process_ready for process p
Spawner(p) == {c \in Callers : cpc[c] = "waiting" /\ cproc[c] = p}

\* C28: a worker that is starting eventually leaves that status (it has a
\* call waiting for it, that call eventually ends, and when it ends the
\* worker is no longer starting); it becomes ready only on an
\* answered health probe, error otherwise (or the object is dropped with
\* the end of the call, when nothing refers to it any more); no process
\* goes from ready or error back to starting.
C28_StartingEnds ==
    /\ [](\A p \in Pids : procs[p].status = "starting" => Spawner(p) # {})
    /\ \A c \in Callers : (cpc[c] = "waiting") ~> (cpc[c] = "idle")
    /\ [][\A c \in Callers :
            (cpc[c] = "waiting" /\ cpc'[c] = "idle") =>
                procs'[cproc[c]].status # "starting"]_vars
    /\ [][\A p \in Pids :
            /\ (procs[p].status = "starting" /\ procs'[p].status # "starting") =>
                  /\ procs'[p].status \in {"ready", "error", "none"}
                  /\ procs'[p].status = "ready" => PortServed(PoolState, procs[p].port)
            /\ procs[p].status \in {"ready", "error"} =>
                  procs'[p].status # "starting"]_vars

\* a worker that was starting has become ready and was returned
C28_Witness ==
    /\ response.kind = "returned"
    /\ response.proc # 0
    /\ procs[response.proc].status = "ready"
    /\ procs[response.proc].requestCount = 0

=============================================================================
